---- MODULE Spec2Model ----
(***************************************************************************)
(* Location -> service-area detection of the Malaysia Transit MCP server   *)
(* (src/src/geocoding.utils.ts): the two gazetteer tables, the scan of the *)
(* query against them, and the geocoding chain (middleware first, then     *)
(* Nominatim) that detectAreaFromLocation awaits.                          *)
(***************************************************************************)
EXTENDS Integers, Sequences, FiniteSets, TLC

(***************************************************************************)
(* JavaScript strings.  TLC strings support Len, \o and SubSeq, so the     *)
(* string methods the code uses are computed character by character.       *)
(***************************************************************************)
UpperChars == "ABCDEFGHIJKLMNOPQRSTUVWXYZ"

LowerChars == "abcdefghijklmnopqrstuvwxyz"

CharAt(s, i) == SubSeq(s, i, i)

LowerChar(c) ==
  IF \E i \in 1..Len(UpperChars) : CharAt(UpperChars, i) = c
  THEN CharAt(LowerChars, CHOOSE i \in 1..Len(UpperChars) : CharAt(UpperChars, i) = c)
  ELSE c

\* the characters of s from position i on, lower-cased
RECURSIVE LowerFrom(_, _)
LowerFrom(s, i) ==
  IF i > Len(s) THEN "" ELSE LowerChar(CharAt(s, i)) \o LowerFrom(s, i + 1)

toLowerCase(s) == LowerFrom(s, 1)

IsSpace(c) == c \in {" ", "\t", "\n"}

\* s from its first character that is not white space on
trimStart(s) ==
  IF \E i \in 1..Len(s) : ~IsSpace(CharAt(s, i))
  THEN SubSeq(s, CHOOSE i \in 1..Len(s) :
                   /\ ~IsSpace(CharAt(s, i))
                   /\ \A j \in 1..(i - 1) : IsSpace(CharAt(s, j)),
              Len(s))
  ELSE ""

\* s up to its last character that is not white space
trimEnd(s) ==
  IF \E i \in 1..Len(s) : ~IsSpace(CharAt(s, i))
  THEN SubSeq(s, 1, CHOOSE i \in 1..Len(s) :
                      /\ ~IsSpace(CharAt(s, i))
                      /\ \A j \in (i + 1)..Len(s) : IsSpace(CharAt(s, j)))
  ELSE ""

trim(s) == trimEnd(trimStart(s))

\* String.prototype.includes
includes(s, k) ==
  \E i \in 1..(Len(s) - Len(k) + 1) : SubSeq(s, i, i + Len(k) - 1) = k

(***************************************************************************)
(* The gazetteer, in declaration order (Object.entries iterates string     *)
(* keys in insertion order).                                               *)
(***************************************************************************)
STATE_TO_AREA_MAP ==
  << <<"kedah", "alor-setar">>,
     <<"alor setar", "alor-setar">>,
     <<"alor star", "alor-setar">>,
     <<"perlis", "kangar">>,
     <<"kangar", "kangar">>,
     <<"penang", "penang">>,
     <<"pulau pinang", "penang">>,
     <<"george town", "penang">>,
     <<"georgetown", "penang">>,
     <<"butterworth", "penang">>,
     <<"bayan lepas", "penang">>,
     <<"perak", "ipoh">>,
     <<"ipoh", "ipoh">>,
     <<"bercham", "ipoh">>,
     <<"tanjung rambutan", "ipoh">>,
     <<"medan kidd", "ipoh">>,
     <<"kelantan", "kota-bharu">>,
     <<"kota bharu", "kota-bharu">>,
     <<"kota bahru", "kota-bharu">>,
     <<"terengganu", "kuala-terengganu">>,
     <<"kuala terengganu", "kuala-terengganu">>,
     <<"pahang", "kuantan">>,
     <<"kuantan", "kuantan">>,
     <<"negeri sembilan", "seremban">>,
     <<"seremban", "seremban">>,
     <<"nilai", "seremban">>,
     <<"port dickson", "seremban">>,
     <<"selangor", "klang-valley">>,
     <<"kuala lumpur", "klang-valley">>,
     <<"kl", "klang-valley">>,
     <<"putrajaya", "klang-valley">>,
     <<"petaling jaya", "klang-valley">>,
     <<"shah alam", "klang-valley">>,
     <<"klang", "klang-valley">>,
     <<"subang jaya", "klang-valley">>,
     <<"cyberjaya", "klang-valley">>,
     <<"ampang", "klang-valley">>,
     <<"cheras", "klang-valley">>,
     <<"kajang", "klang-valley">>,
     <<"bangi", "klang-valley">>,
     <<"rawang", "klang-valley">>,
     <<"gombak", "klang-valley">>,
     <<"melaka", "melaka">>,
     <<"malacca", "melaka">>,
     <<"johor", "johor">>,
     <<"johor bahru", "johor">>,
     <<"johor baharu", "johor">>,
     <<"jb", "johor">>,
     <<"iskandar puteri", "johor">>,
     <<"sarawak", "kuching">>,
     <<"kuching", "kuching">> >>

\* LOCATION_TO_AREA_MAP with a generic key declared ahead of the keys that
\* contain it
LocationTableWithGenericKey ==
  << <<"sentral", "klang-valley">>,
     <<"komtar", "penang">>,
     <<"bayan lepas", "penang">>,
     <<"butterworth", "penang">>,
     <<"penang sentral", "penang">>,
     <<"gurney", "penang">>,
     <<"queensbay", "penang">>,
     <<"klcc", "klang-valley">>,
     <<"klia", "klang-valley">>,
     <<"klia2", "klang-valley">>,
     <<"mid valley", "klang-valley">>,
     <<"pavilion", "klang-valley">>,
     <<"sunway", "klang-valley">>,
     <<"1 utama", "klang-valley">>,
     <<"kl sentral", "klang-valley">>,
     <<"bukit bintang", "klang-valley">>,
     <<"bangsar", "klang-valley">>,
     <<"mont kiara", "klang-valley">>,
     <<"ioi city", "klang-valley">>,
     <<"tbs", "klang-valley">>,
     <<"terminal bersepadu selatan", "klang-valley">>,
     <<"medan kidd", "ipoh">>,
     <<"terminal amanjaya", "ipoh">>,
     <<"ipoh parade", "ipoh">>,
     <<"terminal one seremban", "seremban">>,
     <<"seremban 2", "seremban">>,
     <<"melaka sentral", "melaka">>,
     <<"jonker street", "melaka">>,
     <<"a famosa", "melaka">>,
     <<"jb sentral", "johor">>,
     <<"larkin", "johor">>,
     <<"legoland", "johor">>,
     <<"kuching sentral", "kuching">> >>

LOCATION_TO_AREA_MAP ==
  << <<"komtar", "penang">>,
     <<"bayan lepas", "penang">>,
     <<"butterworth", "penang">>,
     <<"penang sentral", "penang">>,
     <<"gurney", "penang">>,
     <<"queensbay", "penang">>,
     <<"klcc", "klang-valley">>,
     <<"klia", "klang-valley">>,
     <<"klia2", "klang-valley">>,
     <<"mid valley", "klang-valley">>,
     <<"pavilion", "klang-valley">>,
     <<"sunway", "klang-valley">>,
     <<"1 utama", "klang-valley">>,
     <<"kl sentral", "klang-valley">>,
     <<"bukit bintang", "klang-valley">>,
     <<"bangsar", "klang-valley">>,
     <<"mont kiara", "klang-valley">>,
     <<"ioi city", "klang-valley">>,
     <<"tbs", "klang-valley">>,
     <<"terminal bersepadu selatan", "klang-valley">>,
     <<"medan kidd", "ipoh">>,
     <<"terminal amanjaya", "ipoh">>,
     <<"ipoh parade", "ipoh">>,
     <<"terminal one seremban", "seremban">>,
     <<"seremban 2", "seremban">>,
     <<"melaka sentral", "melaka">>,
     <<"jonker street", "melaka">>,
     <<"a famosa", "melaka">>,
     <<"jb sentral", "johor">>,
     <<"larkin", "johor">>,
     <<"legoland", "johor">>,
     <<"kuching sentral", "kuching">> >>

(***************************************************************************)
(* JavaScript values that arrive in provider bodies: numbers, strings and  *)
(* undefined (null included), all as records of one shape.  Coordinates    *)
(* are whole numbers in the model.                                         *)
(***************************************************************************)
Num(n) == [type |-> "number", n |-> n, s |-> ""]

Str(s) == [type |-> "string", n |-> 0, s |-> s]

Undefined == [type |-> "undefined", n |-> 0, s |-> ""]

NaN == [type |-> "NaN", n |-> 0, s |-> ""]

\* ToBoolean: 0, NaN, "" and undefined are falsy
Truthy(v) ==
  \/ v.type = "number" /\ v.n # 0
  \/ v.type = "string" /\ v.s # ""

\* a || b
Or(a, b) == IF Truthy(a) THEN a ELSE b

Digits == "0123456789"

IsDigit(c) == \E i \in 1..Len(Digits) : CharAt(Digits, i) = c

DigitVal(c) == (CHOOSE i \in 1..Len(Digits) : CharAt(Digits, i) = c) - 1

\* the number written by the digits of s from position i on, after acc
RECURSIVE ParseDigits(_, _, _)
ParseDigits(s, i, acc) ==
  IF i <= Len(s) /\ IsDigit(CharAt(s, i))
  THEN ParseDigits(s, i + 1, acc * Len(Digits) + DigitVal(CharAt(s, i)))
  ELSE acc

\* parseFloat: the argument is converted to a string, leading white space is
\* skipped, and the longest numeric prefix is read; NaN when there is none
parseFloat(v) ==
  IF v.type = "number" THEN v
  ELSE IF v.type = "string"
  THEN LET t == trimStart(v.s)
       IN  IF t # "" /\ IsDigit(CharAt(t, 1)) THEN Num(ParseDigits(t, 1, 0)) ELSE NaN
  ELSE NaN

\* value?.toLowerCase(): undefined when the value is nullish, a TypeError
\* when it is not a string
OptLowerThrows(v) == v.type \in {"number", "NaN"}

OptLower(v) == IF v.type = "string" THEN Str(toLowerCase(v.s)) ELSE Undefined

\* FirstMatch without the break: the last entry whose key s contains
LastMatch(T, s) ==
  IF \E i \in 1..Len(T) : includes(s, T[i][1])
  THEN CHOOSE i \in 1..Len(T) :
         /\ includes(s, T[i][1])
         /\ \A j \in (i + 1)..Len(T) : ~includes(s, T[j][1])
  ELSE 0

(***************************************************************************)
(* Table access.                                                           *)
(***************************************************************************)
\* for (const [key, value] of Object.entries(T)) if (s.includes(key)) ... break
\* the index of the first entry whose key s contains, 0 when there is none
FirstMatch(T, s) ==
  IF \E i \in 1..Len(T) : includes(s, T[i][1])
  THEN CHOOSE i \in 1..Len(T) :
         /\ includes(s, T[i][1])
         /\ \A j \in 1..(i - 1) : ~includes(s, T[j][1])
  ELSE 0

\* members every object literal inherits from Object.prototype whose names
\* survive toLowerCase(); the value read is an object, shown as its text
InheritedMember(k) ==
  IF k = "constructor" THEN "function Object() { [native code] }"
  ELSE IF k = "__proto__" THEN "[object Object]"
  ELSE ""

IsStateKey(k) == \E i \in 1..Len(STATE_TO_AREA_MAP) : STATE_TO_AREA_MAP[i][1] = k

\* STATE_TO_AREA_MAP[k]: "" stands for undefined
Lookup(T, k) ==
  IF \E i \in 1..Len(T) : T[i][1] = k
  THEN T[CHOOSE i \in 1..Len(T) : T[i][1] = k][2]
  ELSE InheritedMember(k)

(***************************************************************************)
(* Results.  A GeocodingResult | null is a sequence of at most one record; *)
(* what an async function settles with is [kind, value], kind "return" or  *)
(* "throw".                                                                *)
(***************************************************************************)
Null == << >>

Return(v) == [kind |-> "return", value |-> v]

Throw == [kind |-> "throw", value |-> Null]

Location(name, state, country, lat, lon) ==
  [name |-> name, state |-> state, country |-> country, lat |-> lat, lon |-> lon]

GeocodingResult(area, confidence, location, source) ==
  [area |-> area, confidence |-> confidence, location |-> location, source |-> source]

(***************************************************************************)
(* Steps 1 and 2 of detectAreaFromLocation: the scan of the two tables.    *)
(* detectedArea and detectedState are "" where the code holds null.        *)
(***************************************************************************)
\* ScanTables with the state scan not guarded by "if (!detectedArea)"
ScanTablesUnguarded(query) ==
  LET normalizedQuery == trim(toLowerCase(query))
      d == FirstMatch(LOCATION_TO_AREA_MAP, normalizedQuery)
      st == FirstMatch(STATE_TO_AREA_MAP, normalizedQuery)
  IN  IF st # 0
      THEN [detectedArea  |-> STATE_TO_AREA_MAP[st][2],
            detectedState |-> STATE_TO_AREA_MAP[st][1],
            matchSource   |-> "state_mapping"]
      ELSE [detectedArea  |-> IF d = 0 THEN "" ELSE LOCATION_TO_AREA_MAP[d][2],
            detectedState |-> "",
            matchSource   |-> IF d = 0 THEN "geocoding" ELSE "direct_match"]

\* ScanTables with the state scan comparing the whole query to the key
ScanTablesWholeQuery(query) ==
  LET normalizedQuery == trim(toLowerCase(query))
      d == FirstMatch(LOCATION_TO_AREA_MAP, normalizedQuery)
  IN  IF d # 0
      THEN [detectedArea |-> LOCATION_TO_AREA_MAP[d][2], detectedState |-> "",
            matchSource |-> "direct_match"]
      ELSE IF IsStateKey(normalizedQuery)
      THEN [detectedArea  |-> Lookup(STATE_TO_AREA_MAP, normalizedQuery),
            detectedState |-> normalizedQuery,
            matchSource   |-> "state_mapping"]
      ELSE [detectedArea |-> "", detectedState |-> "", matchSource |-> "geocoding"]

\* ScanTables comparing the query as typed, without toLowerCase()
ScanTablesCaseSensitive(query) ==
  LET normalizedQuery == trim(query)
      d == FirstMatch(LOCATION_TO_AREA_MAP, normalizedQuery)
      st == FirstMatch(STATE_TO_AREA_MAP, normalizedQuery)
  IN  IF d # 0
      THEN [detectedArea |-> LOCATION_TO_AREA_MAP[d][2], detectedState |-> "",
            matchSource |-> "direct_match"]
      ELSE IF st # 0
      THEN [detectedArea  |-> STATE_TO_AREA_MAP[st][2],
            detectedState |-> STATE_TO_AREA_MAP[st][1],
            matchSource   |-> "state_mapping"]
      ELSE [detectedArea |-> "", detectedState |-> "", matchSource |-> "geocoding"]

ScanTables(query) ==
  LET normalizedQuery == trim(toLowerCase(query))
      d == FirstMatch(LOCATION_TO_AREA_MAP, normalizedQuery)
      direct == [detectedArea  |-> IF d = 0 THEN "" ELSE LOCATION_TO_AREA_MAP[d][2],
                 detectedState |-> "",
                 matchSource   |-> IF d = 0 THEN "geocoding" ELSE "direct_match"]
  IN  IF direct.detectedArea = ""
      THEN LET st == FirstMatch(STATE_TO_AREA_MAP, normalizedQuery)
           IN  IF st = 0 THEN direct
               ELSE [detectedArea  |-> STATE_TO_AREA_MAP[st][2],
                     detectedState |-> STATE_TO_AREA_MAP[st][1],
                     matchSource   |-> "state_mapping"]
      ELSE direct

\* geocodeWithMiddleware giving null, as geocodeWithNominatim does, when the
\* address maps to no area
geocodeWithMiddlewareNullOnUnknown(query, reply) ==
  IF reply.status # "ok" THEN Throw
  ELSE IF reply.hasData /\ Truthy(reply.lat) /\ Truthy(reply.lon)
  THEN IF OptLowerThrows(Or(reply.formattedAddress, Str("")))
       THEN Throw
       ELSE
         LET formattedAddress == toLowerCase(Or(reply.formattedAddress, Str("")).s)
             m == FirstMatch(STATE_TO_AREA_MAP, formattedAddress)
             name == Or(reply.formattedAddress, Str(query))
         IN  IF m # 0
             THEN Return(<<GeocodingResult(STATE_TO_AREA_MAP[m][2], "high",
                             Location(name, Str(STATE_TO_AREA_MAP[m][1]), Str("Malaysia"),
                                      reply.lat, reply.lon),
                             "geocoding")>>)
             ELSE Return(Null)
  ELSE Return(Null)

(***************************************************************************)
(* geocodeWithMiddleware, from the reply of GET /api/geocode on.  A reply  *)
(* is [status, hasData, lat, lon, formattedAddress]; axios rejects on any  *)
(* status but "ok", and the catch block rethrows.                          *)
(***************************************************************************)
geocodeWithMiddleware(query, reply) ==
  IF reply.status # "ok" THEN Throw
  ELSE IF reply.hasData /\ Truthy(reply.lat) /\ Truthy(reply.lon)
  THEN IF OptLowerThrows(Or(reply.formattedAddress, Str("")))
       THEN Throw
       ELSE
         LET formattedAddress == toLowerCase(Or(reply.formattedAddress, Str("")).s)
             m == FirstMatch(STATE_TO_AREA_MAP, formattedAddress)
             name == Or(reply.formattedAddress, Str(query))
         IN  IF m # 0
             THEN Return(<<GeocodingResult(STATE_TO_AREA_MAP[m][2], "high",
                             Location(name, Str(STATE_TO_AREA_MAP[m][1]), Str("Malaysia"),
                                      reply.lat, reply.lon),
                             "geocoding")>>)
             ELSE Return(<<GeocodingResult("unknown", "low",
                             Location(name, Undefined, Str("Malaysia"),
                                      reply.lat, reply.lon),
                             "geocoding")>>)
  ELSE Return(Null)

\* NominatimSearchQuery looking for "malaysia" in the query as typed
NominatimSearchQueryCaseSensitive(query) ==
  IF includes(query, "malaysia") THEN query ELSE query \o ", Malaysia"

(***************************************************************************)
(* geocodeWithNominatim, from the reply of GET /search on.  A reply is     *)
(* [status, body, lat, lon, display_name, state, city, town, country];     *)
(* body tells the shape of response.data: "none" (empty or null), "empty"  *)
(* ([]), "nullItem" ([null]), "text" (a string that is not JSON), "object" *)
(* (an object without length) or "results" (an array whose first element   *)
(* carries the fields).  The whole body of the function is in a try whose  *)
(* catch only logs.                                                        *)
(***************************************************************************)
NominatimSearchQuery(query) ==
  IF includes(toLowerCase(query), "malaysia") THEN query ELSE query \o ", Malaysia"

\* geocodeWithNominatim tagging its result like the middleware does
geocodeWithNominatimHigh(query, reply) ==
  IF reply.status # "ok" THEN Return(Null)
  ELSE IF reply.body \in {"none", "empty", "object"} THEN Return(Null)
  ELSE IF reply.body = "nullItem" THEN Return(Null)
  ELSE
    LET address == IF reply.body = "results"
                   THEN [state |-> reply.state, city |-> reply.city, town |-> reply.town,
                         country |-> reply.country]
                   ELSE [state |-> Undefined, city |-> Undefined, town |-> Undefined,
                         country |-> Undefined]
        first == IF reply.body = "results"
                 THEN [lat |-> reply.lat, lon |-> reply.lon, display_name |-> reply.display_name]
                 ELSE [lat |-> Undefined, lon |-> Undefined, display_name |-> Undefined]
    IN  IF OptLowerThrows(address.state) THEN Return(Null)
        ELSE IF OptLowerThrows(address.city) THEN Return(Null)
        ELSE IF ~Truthy(OptLower(address.city)) /\ OptLowerThrows(address.town) THEN Return(Null)
        ELSE
          LET state == Or(OptLower(address.state), Str("")).s
              city  == Or(Or(OptLower(address.city), OptLower(address.town)), Str("")).s
              byState == Lookup(STATE_TO_AREA_MAP, state)
              area == IF byState = "" /\ city # ""
                      THEN Lookup(STATE_TO_AREA_MAP, city) ELSE byState
          IN  IF area # ""
              THEN Return(<<GeocodingResult(area, "high",
                              Location(first.display_name, address.state, address.country,
                                       parseFloat(first.lat), parseFloat(first.lon)),
                              "geocoding")>>)
              ELSE Return(Null)

geocodeWithNominatim(query, reply) ==
  IF reply.status # "ok" THEN Return(Null)
  ELSE IF reply.body \in {"none", "empty", "object"} THEN Return(Null)
  ELSE IF reply.body = "nullItem" THEN Return(Null)
  ELSE
    LET address == IF reply.body = "results"
                   THEN [state |-> reply.state, city |-> reply.city, town |-> reply.town,
                         country |-> reply.country]
                   ELSE [state |-> Undefined, city |-> Undefined, town |-> Undefined,
                         country |-> Undefined]
        first == IF reply.body = "results"
                 THEN [lat |-> reply.lat, lon |-> reply.lon, display_name |-> reply.display_name]
                 ELSE [lat |-> Undefined, lon |-> Undefined, display_name |-> Undefined]
    IN  IF OptLowerThrows(address.state) THEN Return(Null)
        ELSE IF OptLowerThrows(address.city) THEN Return(Null)
        ELSE IF ~Truthy(OptLower(address.city)) /\ OptLowerThrows(address.town) THEN Return(Null)
        ELSE
          LET state == Or(OptLower(address.state), Str("")).s
              city  == Or(Or(OptLower(address.city), OptLower(address.town)), Str("")).s
              byState == Lookup(STATE_TO_AREA_MAP, state)
              area == IF byState = "" /\ city # ""
                      THEN Lookup(STATE_TO_AREA_MAP, city) ELSE byState
          IN  IF area # ""
              THEN Return(<<GeocodingResult(area, "medium",
                              Location(first.display_name, address.state, address.country,
                                       parseFloat(first.lat), parseFloat(first.lon)),
                              "geocoding")>>)
              ELSE Return(Null)

\* FallsBack without the try/catch around the middleware call: only a null
\* result goes on to Nominatim, a rejection leaves geocodeLocation
FallsBackOnNullOnly(settled) ==
  settled.kind = "return" /\ settled.value = Null

\* FallsBack going on to Nominatim whatever the middleware call gave
FallsBackAlways(settled) == TRUE

(***************************************************************************)
(* geocodeLocation after the middleware call has settled: a result is      *)
(* returned as it is; null and a rejection both go on to Nominatim.        *)
(***************************************************************************)
FallsBack(settled) ==
  ~(settled.kind = "return" /\ settled.value # Null)

\* DetectResult with step 4 keeping the confidence of a geocoded match
DetectResultHighOnFailure(query, scan, geo) ==
  IF geo.kind = "return" /\ geo.value # Null
  THEN LET geocodingResult == geo.value[1]
       IN  IF scan.detectedArea # ""
           THEN Return(<<GeocodingResult(scan.detectedArea, "high",
                           geocodingResult.location, scan.matchSource)>>)
           ELSE IF geocodingResult.area # "" /\ geocodingResult.area # "unknown"
           THEN Return(<<geocodingResult>>)
           ELSE Return(<<GeocodingResult(
                           IF geocodingResult.area # "" THEN geocodingResult.area ELSE "unknown",
                           "low", geocodingResult.location, "geocoding")>>)
  ELSE \* geocodeLocation returned null, or threw and the catch logged it
       IF scan.detectedArea # ""
       THEN Return(<<GeocodingResult(scan.detectedArea, "high",
                       Location(Str(query),
                                IF scan.detectedState # "" THEN Str(scan.detectedState) ELSE Undefined,
                                Undefined, Num(0), Num(0)),
                       scan.matchSource)>>)
       ELSE Return(Null)

\* DetectResult with the table branch reading geocodingResult.location
\* before the null check, outside the try: a TypeError when geocoding failed
DetectResultNoNullCheck(query, scan, geo) ==
  IF scan.detectedArea # ""
  THEN IF geo.kind = "return" /\ geo.value # Null
       THEN Return(<<GeocodingResult(scan.detectedArea, "high",
                       geo.value[1].location, scan.matchSource)>>)
       ELSE Throw
  ELSE IF geo.kind = "return" /\ geo.value # Null
  THEN LET geocodingResult == geo.value[1]
       IN  IF geocodingResult.area # "" /\ geocodingResult.area # "unknown"
           THEN Return(<<geocodingResult>>)
           ELSE Return(<<GeocodingResult("unknown", "low", geocodingResult.location,
                           "geocoding")>>)
  ELSE Return(Null)

\* DetectResult keeping confidence medium for a table match also when
\* geocoding succeeded
DetectResultMediumOnTable(query, scan, geo) ==
  IF geo.kind = "return" /\ geo.value # Null
  THEN LET geocodingResult == geo.value[1]
       IN  IF scan.detectedArea # ""
           THEN Return(<<GeocodingResult(scan.detectedArea, "medium",
                           geocodingResult.location, scan.matchSource)>>)
           ELSE IF geocodingResult.area # "" /\ geocodingResult.area # "unknown"
           THEN Return(<<geocodingResult>>)
           ELSE Return(<<GeocodingResult(
                           IF geocodingResult.area # "" THEN geocodingResult.area ELSE "unknown",
                           "low", geocodingResult.location, "geocoding")>>)
  ELSE IF scan.detectedArea # ""
       THEN Return(<<GeocodingResult(scan.detectedArea, "medium",
                       Location(Str(query),
                                IF scan.detectedState # "" THEN Str(scan.detectedState) ELSE Undefined,
                                Undefined, Num(0), Num(0)),
                       scan.matchSource)>>)
       ELSE Return(Null)

\* DetectResult giving confidence medium to a geocoded result without area
DetectResultUnknownMedium(query, scan, geo) ==
  IF geo.kind = "return" /\ geo.value # Null
  THEN LET geocodingResult == geo.value[1]
       IN  IF scan.detectedArea # ""
           THEN Return(<<GeocodingResult(scan.detectedArea, "high",
                           geocodingResult.location, scan.matchSource)>>)
           ELSE IF geocodingResult.area # "" /\ geocodingResult.area # "unknown"
           THEN Return(<<geocodingResult>>)
           ELSE Return(<<GeocodingResult(
                           IF geocodingResult.area # "" THEN geocodingResult.area ELSE "unknown",
                           "medium", geocodingResult.location, "geocoding")>>)
  ELSE IF scan.detectedArea # ""
       THEN Return(<<GeocodingResult(scan.detectedArea, "medium",
                       Location(Str(query),
                                IF scan.detectedState # "" THEN Str(scan.detectedState) ELSE Undefined,
                                Undefined, Num(0), Num(0)),
                       scan.matchSource)>>)
       ELSE Return(Null)

(***************************************************************************)
(* detectAreaFromLocation after geocodeLocation has settled (steps 3-5):   *)
(* scan is what ScanTables found, geo what geocodeLocation settled with.   *)
(***************************************************************************)
DetectResult(query, scan, geo) ==
  IF geo.kind = "return" /\ geo.value # Null
  THEN LET geocodingResult == geo.value[1]
       IN  IF scan.detectedArea # ""
           THEN Return(<<GeocodingResult(scan.detectedArea, "high",
                           geocodingResult.location, scan.matchSource)>>)
           ELSE IF geocodingResult.area # "" /\ geocodingResult.area # "unknown"
           THEN Return(<<geocodingResult>>)
           ELSE Return(<<GeocodingResult(
                           IF geocodingResult.area # "" THEN geocodingResult.area ELSE "unknown",
                           "low", geocodingResult.location, "geocoding")>>)
  ELSE \* geocodeLocation returned null, or threw and the catch logged it
       IF scan.detectedArea # ""
       THEN Return(<<GeocodingResult(scan.detectedArea, "medium",
                       Location(Str(query),
                                IF scan.detectedState # "" THEN Str(scan.detectedState) ELSE Undefined,
                                Undefined, Num(0), Num(0)),
                       scan.matchSource)>>)
       ELSE Return(Null)

(***************************************************************************)
(* Inputs: the location texts a caller passes and what the two providers   *)
(* may answer.                                                             *)
(***************************************************************************)
Queries ==
  { "Komtar", "  KOMTAR ", "komtar", "KLCC", "Pavilion KL", "Seremban 2",
    "Kedah", "kedah\n", "KTM Alor Setar", "Johor Bahru", "Kluang",
    "Komtar Kedah", "Sunway Ipoh", "Ipoh, Malaysia", "Gurney Drive, Ipoh",
    "Pekan", "Sungai Petani", "Kota Kinabalu", "asdkfjasldkfj_not_a_place",
    "constructor" }

MiddlewareErrors ==
  { [status |-> st, hasData |-> FALSE, lat |-> Undefined, lon |-> Undefined,
     formattedAddress |-> Undefined] : st \in {"network", "timeout", "http"} }

MiddlewareCoords ==
  { <<Num(5), Num(100)>>, <<Num(0), Num(100)>>, <<Num(5), Undefined>>,
    <<Undefined, Undefined>>, <<Str("5"), Str("100")>> }

MiddlewareAddresses ==
  { Str("KOMTAR, George Town, Pulau Pinang, Malaysia"),
    Str("Kluang, Johor, Malaysia"),
    Str("Kota Kinabalu, Sabah, Malaysia"),
    Undefined,
    Num(7) }

MiddlewareBodies ==
  { [status |-> "ok", hasData |-> TRUE, lat |-> c[1], lon |-> c[2], formattedAddress |-> a] :
      c \in MiddlewareCoords, a \in MiddlewareAddresses }
  \cup { [status |-> "ok", hasData |-> FALSE, lat |-> Undefined, lon |-> Undefined,
          formattedAddress |-> Undefined] }

MiddlewareReplies == MiddlewareErrors \cup MiddlewareBodies

NominatimBlank(status, body) ==
  [status |-> status, body |-> body, lat |-> Undefined, lon |-> Undefined,
   display_name |-> Undefined, state |-> Undefined, city |-> Undefined,
   town |-> Undefined, country |-> Undefined]

NominatimErrors == { NominatimBlank(st, "none") : st \in {"network", "timeout", "http"} }

NominatimCoords ==
  { <<Str("5"), Str("100")>>, <<Str("0"), Str("0")>>, <<Str("abc"), Str("100")>>,
    <<Undefined, Undefined>> }

\* <<state, city, town>> of the first result's address
NominatimAddresses ==
  { <<Str("Kedah"), Undefined, Undefined>>,
    <<Str("Wilayah Persekutuan Kuala Lumpur"), Str("Kuala Lumpur"), Undefined>>,
    <<Str("Johor Darul Takzim"), Undefined, Undefined>>,
    <<Str("Sabah"), Undefined, Str("Kota Kinabalu")>>,
    <<Undefined, Undefined, Str("Ipoh")>>,
    <<Undefined, Undefined, Undefined>>,
    <<Str("constructor"), Undefined, Undefined>>,
    <<Num(7), Undefined, Undefined>>,
    <<Undefined, Num(3), Str("Ipoh")>>,
    <<Str("Kedah"), Str("Alor Setar"), Num(3)>> }

NominatimBodies ==
  { [status |-> "ok", body |-> "results", lat |-> c[1], lon |-> c[2],
     display_name |-> Str("display name"), state |-> a[1], city |-> a[2], town |-> a[3],
     country |-> Str("Malaysia")] : c \in NominatimCoords, a \in NominatimAddresses }
  \cup { NominatimBlank("ok", b) : b \in {"none", "empty", "nullItem", "text", "object"} }

NominatimReplies == NominatimErrors \cup NominatimBodies

(***************************************************************************)
(* One resolution at a time: the call, the two awaited replies, the        *)
(* settled promise.                                                        *)
(***************************************************************************)
VARIABLES
  pc,               \* "idle", "middleware" (awaiting it), "nominatim", "done",
                    \* "replied"
  query,            \* the argument of detectAreaFromLocation
  scan,             \* its locals detectedArea, detectedState, matchSource
  requests,         \* the outbound geocoding calls of this resolution, in order
  middlewareReply,  \* what the middleware answered, if it has
  nominatimReply,   \* what Nominatim answered, if it has
  outcome,          \* what the promise settled with
  toolResponse,     \* what the detect_location_area handler returned
  apiKey,           \* whether GOOGLE_MAPS_API_KEY is set in the environment
  earlier,          \* history: a finished resolution of this process, if recorded
  calls,            \* the resolutions in flight at once, one record per slot
  analytics,        \* the analytics object of http-server.ts
  server            \* the rest of the HTTP server: environment, startup load,
                    \* clock, persisted copy, last response

vars == <<pc, query, scan, requests, middlewareReply, nominatimReply, outcome,
          toolResponse, apiKey, earlier, calls, analytics, server>>

resolverVars == <<pc, query, scan, requests, middlewareReply, nominatimReply,
                  outcome, toolResponse, apiKey, earlier, calls>>

Pending == [kind |-> "pending", value |-> Null]

NoScan == [detectedArea |-> "", detectedState |-> "", matchSource |-> "geocoding"]

Request(provider, q, text) == [provider |-> provider, query |-> q, text |-> text]

(***************************************************************************)
(* The detect_location_area tool around the resolver.                      *)
(***************************************************************************)
\* getAreaStateMapping(), in declaration order
getAreaStateMapping ==
  << <<"alor-setar", <<"Kedah">> >>,
     <<"kangar", <<"Perlis">> >>,
     <<"penang", <<"Penang", "Pulau Pinang">> >>,
     <<"ipoh", <<"Perak">> >>,
     <<"kota-bharu", <<"Kelantan">> >>,
     <<"kuala-terengganu", <<"Terengganu">> >>,
     <<"kuantan", <<"Pahang">> >>,
     <<"seremban", <<"Negeri Sembilan">> >>,
     <<"klang-valley", <<"Selangor", "Kuala Lumpur", "Putrajaya">> >>,
     <<"melaka", <<"Melaka", "Malacca">> >>,
     <<"johor", <<"Johor">> >>,
     <<"kuching", <<"Sarawak">> >> >>

\* what the handler returns: the fields of the JSON text and the isError flag
ToolReply(kind, isError, success, result, guidance, availableAreas) ==
  [kind |-> kind, isError |-> isError, success |-> success, result |-> result,
   nextStepGuidance |-> guidance, availableAreas |-> availableAreas]

NoReply == ToolReply("none", FALSE, FALSE, Null, "", << >>)

\* ToolResponse reporting a failed detection the way it reports an exception
ToolResponseErrorOnNull(location, settled) ==
  IF settled.kind = "throw" \/ settled.value = Null
  THEN ToolReply("error", TRUE, FALSE, Null, "", << >>)
  ELSE LET result == settled.value[1]
       IN  ToolReply("detected", FALSE, TRUE, settled.value,
                     IF result.location.lat = Num(0) \/ result.location.lon = Num(0)
                     THEN "NOTE: Geocoding did not return coordinates."
                     ELSE "TIP: You can use find_nearby_stops_with_arrivals",
                     << >>)

\* the handler of detect_location_area after detectAreaFromLocation settled
ToolResponse(location, settled) ==
  IF settled.kind = "throw"
  THEN ToolReply("error", TRUE, FALSE, Null, "", << >>)
  ELSE IF settled.value # Null
  THEN LET result == settled.value[1]
       IN  ToolReply("detected", FALSE, TRUE, settled.value,
                     IF result.location.lat = Num(0) \/ result.location.lon = Num(0)
                     THEN "NOTE: Geocoding did not return coordinates."
                     ELSE "TIP: You can use find_nearby_stops_with_arrivals",
                     << >>)
  ELSE ToolReply("not_found", FALSE, FALSE, Null, "", getAreaStateMapping)

(***************************************************************************)
(* The analytics of the HTTP server (http-server.ts).  Objects used as     *)
(* counters by key are functions that are 0 where the object has no key    *)
(* (the code reads them as obj[key] || 0).  requestsByMethod, clientsByIp, *)
(* clientsByUserAgent and hourlyRequests are counted like                  *)
(* requestsByEndpoint and are left out.  Time is a counter that advances   *)
(* with every tracked tool call.                                           *)
(***************************************************************************)
MAX_RECENT_CALLS == 100

Endpoints == { "/health", "/analytics", "/analytics/tools", "/analytics/dashboard", "/", "/mcp" }

Tools == { "detect_location_area", "get_stop_arrivals" }

\* the initial value of analytics, at time t
DefaultAnalytics(t) ==
  [serverStartTime    |-> t,
   totalRequests      |-> 0,
   totalToolCalls     |-> 0,
   requestsByEndpoint |-> [e \in Endpoints |-> 0],
   toolCalls          |-> [tl \in Tools |-> 0],
   recentToolCalls    |-> << >>]

ToolCall(tool, t) == [tool |-> tool, timestamp |-> t]

\* analytics as an earlier run of the server left it in Firebase or in
\* the local file
StoredAnalytics ==
  [serverStartTime    |-> 0,
   totalRequests      |-> 5,
   totalToolCalls     |-> 2,
   requestsByEndpoint |-> [e \in Endpoints |-> IF e = "/mcp" THEN 5 ELSE 0],
   toolCalls          |-> [tl \in Tools |-> IF tl = "detect_location_area" THEN 2 ELSE 0],
   recentToolCalls    |-> <<ToolCall("detect_location_area", 1),
                            ToolCall("detect_location_area", 0)>>]

\* loadAnalytics once Firebase has answered (or without Firebase): the
\* Firebase data if there is any, else the local file, else what is there
LoadedAnalytics(current, firebaseData, localFile) ==
  IF firebaseData # << >> THEN firebaseData[1]
  ELSE IF localFile # << >> THEN localFile[1]
  ELSE current

\* the server after its module has been evaluated, at time 2: without
\* Firebase loadAnalytics has run to its end, with Firebase it awaits the
\* database.  tracked, loaded and sinceReset are history: what was tracked
\* since the process started, the totals the load brought, and the tool calls
\* since the last reset, newest first; budget is how many more requests and
\* imports the behaviour may track
Server(firebase, firebaseData, localFile, resetKey, importKey, budget) ==
  [firebase     |-> firebase,
   budget       |-> budget,
   loadPc       |-> IF firebase THEN "loading" ELSE "loaded",
   firebaseData |-> firebaseData,
   localFile    |-> localFile,
   resetKey     |-> resetKey,
   importKey    |-> importKey,
   now          |-> 2,
   response     |-> [endpoint |-> "", status |-> 0],
   saved        |-> << >>,
   tracked      |-> [requests |-> 0, toolCalls |-> 0],
   loaded       |-> [requests |-> 0, toolCalls |-> 0],
   sinceReset   |-> << >>]

Budget(r, i) == [requests |-> r, imports |-> i]

NoBudget == Budget(0, 0)

\* the slots of the resolutions that may be in flight together
NumCalls == 2

Calls == 1..NumCalls

\* a slot with no resolution in it
IdleCall ==
  [pc |-> "idle", query |-> "", scan |-> NoScan, requests |-> << >>,
   middlewareReply |-> << >>, nominatimReply |-> << >>, outcome |-> Pending]

Init ==
  /\ pc = "idle"
  /\ query = ""
  /\ scan = NoScan
  /\ requests = << >>
  /\ middlewareReply = << >>
  /\ nominatimReply = << >>
  /\ outcome = Pending
  /\ toolResponse = NoReply
  /\ apiKey \in BOOLEAN
  /\ earlier = << >>
  /\ calls = [c \in Calls |-> IdleCall]
  /\ analytics = DefaultAnalytics(0)
  /\ server = Server(FALSE, << >>, << >>, Undefined, Undefined, NoBudget)

\* Detect returning the table's area at once, without geocoding
DetectShortCircuit(q) ==
  /\ pc = "idle"
  /\ query' = q
  /\ scan' = ScanTables(q)
  /\ IF ScanTables(q).detectedArea # ""
     THEN /\ requests' = << >>
          /\ outcome' = DetectResult(q, ScanTables(q), Return(Null))
          /\ pc' = "done"
     ELSE /\ requests' = <<Request("middleware", q, q)>>
          /\ pc' = "middleware"
          /\ UNCHANGED outcome
  /\ UNCHANGED <<middlewareReply, nominatimReply, toolResponse, apiKey, earlier, calls, analytics, server>>

\* Detect consulting the tables only for the first resolution of the process
DetectScansOnce(q) ==
  /\ pc = "idle"
  /\ query' = q
  /\ scan' = IF earlier = << >> THEN ScanTables(q) ELSE NoScan
  /\ requests' = <<Request("middleware", q, q)>>
  /\ pc' = "middleware"
  /\ UNCHANGED <<middlewareReply, nominatimReply, outcome, toolResponse, apiKey, earlier, calls, analytics, server>>

\* detectAreaFromLocation(q) up to its first await: the scans, then
\* geocodeLocation -> geocodeWithMiddleware -> axios.get
Detect(q) ==
  /\ pc = "idle"
  /\ query' = q
  /\ scan' = ScanTables(q)
  /\ requests' = <<Request("middleware", q, q)>>
  /\ pc' = "middleware"
  /\ UNCHANGED <<middlewareReply, nominatimReply, outcome, toolResponse, apiKey, earlier, calls, analytics, server>>

\* MiddlewareResponds asking the middleware again after a failed call instead
\* of going on to Nominatim
MiddlewareRespondsRetrying(r) ==
  /\ pc = "middleware"
  /\ middlewareReply' = <<r>>
  /\ LET settled == geocodeWithMiddleware(query, r)
     IN  IF r.status # "ok"
         THEN UNCHANGED <<requests, pc, outcome>>
         ELSE IF FallsBack(settled)
         THEN /\ requests' = Append(requests,
                               Request("nominatim", query, NominatimSearchQuery(query)))
              /\ pc' = "nominatim"
              /\ UNCHANGED outcome
         ELSE /\ outcome' = DetectResult(query, scan, settled)
              /\ pc' = "done"
              /\ UNCHANGED requests
  /\ UNCHANGED <<query, scan, nominatimReply, toolResponse, apiKey, earlier, calls, analytics, server>>

\* the middleware call settles: either geocodeLocation returns its result and
\* detectAreaFromLocation finishes, or geocodeWithNominatim issues its call
MiddlewareResponds(r) ==
  /\ pc = "middleware"
  /\ middlewareReply' = <<r>>
  /\ LET settled == geocodeWithMiddleware(query, r)
     IN  IF FallsBack(settled)
         THEN /\ requests' = Append(requests,
                               Request("nominatim", query, NominatimSearchQuery(query)))
              /\ pc' = "nominatim"
              /\ UNCHANGED outcome
         ELSE /\ outcome' = DetectResult(query, scan, settled)
              /\ pc' = "done"
              /\ UNCHANGED requests
  /\ UNCHANGED <<query, scan, nominatimReply, toolResponse, apiKey, earlier, calls, analytics, server>>

\* the Nominatim call settles and detectAreaFromLocation finishes
NominatimResponds(r) ==
  /\ pc = "nominatim"
  /\ nominatimReply' = <<r>>
  /\ outcome' = DetectResult(query, scan, geocodeWithNominatim(query, r))
  /\ pc' = "done"
  /\ UNCHANGED <<query, scan, requests, middlewareReply, toolResponse, apiKey, earlier, calls, analytics, server>>

\* the handler's await returns: it builds the tool's answer
Respond ==
  /\ pc = "done"
  /\ toolResponse' = ToolResponse(query, outcome)
  /\ pc' = "replied"
  /\ UNCHANGED <<query, scan, requests, middlewareReply, nominatimReply, outcome, apiKey, earlier, calls, analytics, server>>

\* the caller has taken the answer; the next resolution starts from scratch
Finish ==
  /\ pc = "replied"
  /\ pc' = "idle"
  /\ query' = ""
  /\ scan' = NoScan
  /\ requests' = << >>
  /\ middlewareReply' = << >>
  /\ nominatimReply' = << >>
  /\ outcome' = Pending
  /\ toolResponse' = NoReply
  /\ UNCHANGED <<apiKey, earlier, calls, analytics, server>>

Next ==
  \/ \E q \in Queries : Detect(q)
  \/ \E r \in MiddlewareReplies : MiddlewareResponds(r)
  \/ \E r \in NominatimReplies : NominatimResponds(r)
  \/ Respond
  \/ Finish

Spec == Init /\ [][Next]_vars

(***************************************************************************)
(* Resolutions one after another, with one finished resolution kept for    *)
(* comparison.                                                             *)
(***************************************************************************)
RepeatQueries ==
  { "Komtar", "  KOMTAR ", "komtar", "Kedah", "kedah\n", "Pekan",
    "asdkfjasldkfj_not_a_place" }

RepeatMiddlewareReplies ==
  { r \in MiddlewareReplies :
      \/ r.status = "network"
      \/ /\ r.hasData /\ r.lat = Num(5) /\ r.lon = Num(100)
         /\ r.formattedAddress \in { Str("Kluang, Johor, Malaysia"),
                                     Str("Kota Kinabalu, Sabah, Malaysia") }
      \/ r.hasData /\ r.lat = Undefined /\ r.lon = Undefined
            /\ r.formattedAddress = Undefined }

RepeatNominatimReplies ==
  { r \in NominatimReplies :
      \/ r.status = "timeout"
      \/ r.status = "ok" /\ r.body = "empty"
      \/ /\ r.body = "results" /\ r.lat = Str("5") /\ r.lon = Str("100")
         /\ <<r.state, r.city, r.town>> \in
              { <<Str("Kedah"), Undefined, Undefined>>,
                <<Str("Sabah"), Undefined, Str("Kota Kinabalu")>>,
                <<Undefined, Undefined, Undefined>> } }

\* what is kept of a finished resolution: what went in and what came out
Snapshot ==
  [query |-> query, middlewareReply |-> middlewareReply,
   nominatimReply |-> nominatimReply, apiKey |-> apiKey, outcome |-> outcome]

\* Finish, with the resolution that just ended recorded
FinishRecorded ==
  /\ pc = "replied"
  /\ earlier' = <<Snapshot>>
  /\ pc' = "idle"
  /\ query' = ""
  /\ scan' = NoScan
  /\ requests' = << >>
  /\ middlewareReply' = << >>
  /\ nominatimReply' = << >>
  /\ outcome' = Pending
  /\ toolResponse' = NoReply
  /\ UNCHANGED <<apiKey, calls, analytics, server>>

NextRepeat ==
  \/ \E q \in RepeatQueries : Detect(q)
  \/ \E r \in RepeatMiddlewareReplies : MiddlewareResponds(r)
  \/ \E r \in RepeatNominatimReplies : NominatimResponds(r)
  \/ Respond
  \/ Finish
  \/ FinishRecorded

SpecRepeat == Init /\ [][NextRepeat]_vars

(***************************************************************************)
(* Resolutions whose provider calls always settle: each axios.get carries  *)
(* a timeout, so a call that gets no reply is rejected when it expires.    *)
(***************************************************************************)
LiveMiddlewareReplies ==
  RepeatMiddlewareReplies \cup { r \in MiddlewareErrors : r.status = "timeout" }

LiveNominatimReplies ==
  RepeatNominatimReplies \cup { r \in NominatimErrors : r.status = "network" }

NextLive ==
  \/ \E q \in RepeatQueries : Detect(q)
  \/ \E r \in LiveMiddlewareReplies : MiddlewareResponds(r)
  \/ \E r \in LiveNominatimReplies : NominatimResponds(r)
  \/ Respond
  \/ Finish

SpecLive ==
  /\ Init /\ [][NextLive]_vars
  /\ WF_vars(\E r \in LiveMiddlewareReplies : MiddlewareResponds(r))
  /\ WF_vars(\E r \in LiveNominatimReplies : NominatimResponds(r))

(***************************************************************************)
(* Resolutions of queries that contain several keys of one table.          *)
(***************************************************************************)
TierQueries ==
  { "Legoland to Komtar", "Melaka Sentral KLCC", "Johor Bahru to Kedah",
    "Kluang Johor", "Kuala Terengganu", "Pekan" }

NextTier ==
  \/ \E q \in TierQueries : Detect(q)
  \/ \E r \in LiveMiddlewareReplies : MiddlewareResponds(r)
  \/ \E r \in LiveNominatimReplies : NominatimResponds(r)
  \/ Respond
  \/ Finish

SpecTier == Init /\ [][NextTier]_vars

(***************************************************************************)
(* Resolutions of the table keys themselves.                               *)
(***************************************************************************)
KeyQueries ==
  { LOCATION_TO_AREA_MAP[i][1] : i \in 1..Len(LOCATION_TO_AREA_MAP) }
    \cup { STATE_TO_AREA_MAP[i][1] : i \in 1..Len(STATE_TO_AREA_MAP) }

NextKeys ==
  \/ \E q \in KeyQueries : Detect(q)
  \/ \E r \in LiveMiddlewareReplies : MiddlewareResponds(r)
  \/ \E r \in LiveNominatimReplies : NominatimResponds(r)
  \/ Respond
  \/ Finish

SpecKeys == Init /\ [][NextKeys]_vars

(***************************************************************************)
(* Several resolutions in flight at once: the server awaits each provider  *)
(* call, so the steps of different calls interleave at the awaits.         *)
(***************************************************************************)
CallQueries == { "Komtar", "Pekan" }

CallMiddlewareReplies ==
  { r \in MiddlewareReplies :
      \/ r.status = "network"
      \/ /\ r.hasData /\ r.lat = Num(5) /\ r.lon = Num(100)
         /\ r.formattedAddress = Str("Kluang, Johor, Malaysia") }

CallNominatimReplies ==
  { r \in NominatimReplies :
      \/ r.status = "timeout"
      \/ /\ r.body = "results" /\ r.lat = Str("5") /\ r.lon = Str("100")
         /\ <<r.state, r.city, r.town>> = <<Str("Kedah"), Undefined, Undefined>> }

\* CallDetect with detectedArea, detectedState and matchSource declared at
\* module level, so that one call's scan overwrites every other call's
CallDetectSharedLocals(c, q) ==
  /\ calls[c].pc = "idle"
  /\ calls' = [d \in Calls |->
                IF d = c
                THEN [calls[c] EXCEPT !.pc = "middleware", !.query = q,
                                      !.scan = ScanTables(q),
                                      !.requests = <<Request("middleware", q, q)>>]
                ELSE [calls[d] EXCEPT !.scan = ScanTables(q)]]
  /\ UNCHANGED <<pc, query, scan, requests, middlewareReply, nominatimReply,
                 outcome, toolResponse, apiKey, earlier, analytics, server>>

\* call c of detectAreaFromLocation(q) up to its first await
CallDetect(c, q) ==
  /\ calls[c].pc = "idle"
  /\ calls' = [calls EXCEPT ![c] =
                [@ EXCEPT !.pc = "middleware", !.query = q,
                          !.scan = ScanTables(q),
                          !.requests = <<Request("middleware", q, q)>>]]
  /\ UNCHANGED <<pc, query, scan, requests, middlewareReply, nominatimReply,
                 outcome, toolResponse, apiKey, earlier, analytics, server>>

\* the middleware call of call c settles
CallMiddlewareResponds(c, r) ==
  /\ calls[c].pc = "middleware"
  /\ LET call == calls[c]
         settled == geocodeWithMiddleware(call.query, r)
     IN  calls' = [calls EXCEPT ![c] =
           IF FallsBack(settled)
           THEN [call EXCEPT !.middlewareReply = <<r>>,
                             !.requests = Append(call.requests,
                                Request("nominatim", call.query,
                                        NominatimSearchQuery(call.query))),
                             !.pc = "nominatim"]
           ELSE [call EXCEPT !.middlewareReply = <<r>>,
                             !.outcome = DetectResult(call.query, call.scan, settled),
                             !.pc = "done"]]
  /\ UNCHANGED <<pc, query, scan, requests, middlewareReply, nominatimReply,
                 outcome, toolResponse, apiKey, earlier, analytics, server>>

\* the Nominatim call of call c settles and the call finishes
CallNominatimResponds(c, r) ==
  /\ calls[c].pc = "nominatim"
  /\ LET call == calls[c]
     IN  calls' = [calls EXCEPT ![c] =
           [call EXCEPT !.nominatimReply = <<r>>,
                        !.outcome = DetectResult(call.query, call.scan,
                                       geocodeWithNominatim(call.query, r)),
                        !.pc = "done"]]
  /\ UNCHANGED <<pc, query, scan, requests, middlewareReply, nominatimReply,
                 outcome, toolResponse, apiKey, earlier, analytics, server>>

\* the caller of call c has taken the result; the slot is free again
CallReturns(c) ==
  /\ calls[c].pc = "done"
  /\ calls' = [calls EXCEPT ![c] = IdleCall]
  /\ UNCHANGED <<pc, query, scan, requests, middlewareReply, nominatimReply,
                 outcome, toolResponse, apiKey, earlier, analytics, server>>

NextConcurrent ==
  \/ \E c \in Calls, q \in CallQueries : CallDetect(c, q)
  \/ \E c \in Calls, r \in CallMiddlewareReplies : CallMiddlewareResponds(c, r)
  \/ \E c \in Calls, r \in CallNominatimReplies : CallNominatimResponds(c, r)
  \/ \E c \in Calls : CallReturns(c)

SpecConcurrent == Init /\ [][NextConcurrent]_vars

(***************************************************************************)
(* The HTTP server: tracked requests, the startup load, the periodic save, *)
(* and the import and reset endpoints.                                     *)
(***************************************************************************)
\* trackToolCall without the pop
trackToolCallUncapped(a, toolName, t) ==
  [a EXCEPT !.totalToolCalls = @ + 1,
            !.toolCalls[toolName] = @ + 1,
            !.recentToolCalls = <<ToolCall(toolName, t)>> \o @]

trackRequest(a, endpoint) ==
  [a EXCEPT !.totalRequests = @ + 1,
            !.requestsByEndpoint[endpoint] = @ + 1]

trackToolCall(a, toolName, t) ==
  LET unshifted == <<ToolCall(toolName, t)>> \o a.recentToolCalls
  IN  [a EXCEPT !.totalToolCalls = @ + 1,
                !.toolCalls[toolName] = @ + 1,
                !.recentToolCalls =
                   IF Len(unshifted) > MAX_RECENT_CALLS
                   THEN SubSeq(unshifted, 1, Len(unshifted) - 1)
                   ELSE unshifted]

BuiltInKey == Str("malaysia-transit-2024")

\* key !== process.env.KEY && key !== 'malaysia-transit-2024'
KeyRejected(key, envKey) == key # envKey /\ key # BuiltInKey

Response(endpoint, status) == [endpoint |-> endpoint, status |-> status]

\* the stack of the server at a moment, for the analytics specifications
InitServer(configs) ==
  /\ pc = "idle"
  /\ query = ""
  /\ scan = NoScan
  /\ requests = << >>
  /\ middlewareReply = << >>
  /\ nominatimReply = << >>
  /\ outcome = Pending
  /\ toolResponse = NoReply
  /\ apiKey = FALSE
  /\ earlier = << >>
  /\ calls = [c \in Calls |-> IdleCall]
  /\ server \in { [c EXCEPT !.loaded =
                     IF c.firebase THEN @
                     ELSE LET a == LoadedAnalytics(DefaultAnalytics(c.now), << >>, c.localFile)
                          IN  [requests |-> a.totalRequests, toolCalls |-> a.totalToolCalls],
                             !.sinceReset =
                     IF c.firebase THEN @
                     ELSE LoadedAnalytics(DefaultAnalytics(c.now), << >>, c.localFile).recentToolCalls]
                   : c \in configs }
  /\ analytics = IF server.firebase THEN DefaultAnalytics(server.now)
                 ELSE LoadedAnalytics(DefaultAnalytics(server.now), << >>, server.localFile)

\* a GET of an endpoint that is tracked
GetRequest(endpoint) ==
  /\ server.budget.requests > 0
  /\ analytics' = trackRequest(analytics, endpoint)
  /\ server' = [server EXCEPT !.response = Response(endpoint, 200),
                              !.tracked.requests = @ + 1,
                              !.budget.requests = @ - 1]
  /\ UNCHANGED resolverVars

\* a request to /mcp; body is [method, name] of the JSON-RPC message
McpRequest(body) ==
  /\ server.budget.requests > 0
  /\ LET counted == trackRequest(analytics, "/mcp")
         isToolCall == body.method = "tools/call" /\ body.name # ""
     IN  /\ analytics' = IF isToolCall
                         THEN trackToolCall(counted, body.name, server.now)
                         ELSE counted
         /\ server' = [server EXCEPT
                         !.response = Response("/mcp", 200),
                         !.tracked.requests = @ + 1,
                         !.budget.requests = @ - 1,
                         !.tracked.toolCalls = IF isToolCall THEN @ + 1 ELSE @,
                         !.sinceReset = IF isToolCall
                                        THEN <<ToolCall(body.name, server.now)>> \o @
                                        ELSE @,
                         !.now = IF isToolCall THEN @ + 1 ELSE @]
  /\ UNCHANGED resolverVars

\* the Firebase read of the startup loadAnalytics() settles
LoadCompletes ==
  /\ server.loadPc = "loading"
  /\ analytics' = LoadedAnalytics(analytics, server.firebaseData, server.localFile)
  /\ server' = [server EXCEPT
                  !.loadPc = "loaded",
                  !.loaded = IF server.firebaseData = << >> /\ server.localFile = << >>
                             THEN [requests |-> 0, toolCalls |-> 0]
                             ELSE [requests |-> analytics'.totalRequests,
                                   toolCalls |-> analytics'.totalToolCalls],
                  !.sinceReset = analytics'.recentToolCalls]
  /\ UNCHANGED resolverVars

\* the setInterval callback: saveAnalytics(), which writes the local file
SaveTick ==
  /\ server' = [server EXCEPT !.saved = <<analytics>>, !.localFile = <<analytics>>]
  /\ UNCHANGED <<analytics, resolverVars>>

\* POST /analytics/reset?key=...
ResetRequest(key) ==
  /\ IF KeyRejected(key, server.resetKey)
     THEN /\ server' = [server EXCEPT !.response = Response("/analytics/reset", 403)]
          /\ UNCHANGED analytics
     ELSE /\ analytics' = DefaultAnalytics(server.now)
          /\ server' = [server EXCEPT !.response = Response("/analytics/reset", 200),
                                      !.saved = <<analytics'>>,
                                      !.localFile = <<analytics'>>,
                                      !.sinceReset = << >>]
  /\ UNCHANGED resolverVars

\* POST /analytics/import?key=... with body [summary, byEndpoint, byTool,
\* serverStartTime], each a sequence of at most one value
ImportRequest(key, body) ==
  /\ server.budget.imports > 0
  /\ IF KeyRejected(key, server.importKey)
     THEN /\ server' = [server EXCEPT !.response = Response("/analytics/import", 403)]
          /\ UNCHANGED analytics
     ELSE /\ analytics' =
               [analytics EXCEPT
                  !.totalRequests =
                     IF body.summary # << >> THEN @ + body.summary[1].totalRequests ELSE @,
                  !.totalToolCalls =
                     IF body.summary # << >> THEN @ + body.summary[1].totalToolCalls ELSE @,
                  !.requestsByEndpoint =
                     IF body.byEndpoint # << >>
                     THEN [e \in Endpoints |-> @[e] + body.byEndpoint[1][e]] ELSE @,
                  !.toolCalls =
                     IF body.byTool # << >>
                     THEN [tl \in Tools |-> @[tl] + body.byTool[1][tl]] ELSE @,
                  !.serverStartTime =
                     IF body.serverStartTime # << >> /\ body.serverStartTime[1] < @
                     THEN body.serverStartTime[1] ELSE @]
          /\ server' = [server EXCEPT !.response = Response("/analytics/import", 200),
                                      !.saved = <<analytics'>>,
                                      !.localFile = <<analytics'>>,
                                      !.budget.imports = @ - 1]
  /\ UNCHANGED resolverVars

\* the key query parameter of a request: absent, the built-in key, the key
\* of the environment, another text
KeyParams == { Undefined, BuiltInKey, Str("key-of-the-environment"), Str("guess") }

EnvironmentKeys == { Undefined, Str("key-of-the-environment") }

ImportBodies ==
  { [summary |-> << >>, byEndpoint |-> << >>, byTool |-> << >>, serverStartTime |-> << >>],
    [summary |-> <<[totalRequests |-> 150, totalToolCalls |-> 150]>>,
     byEndpoint |-> <<[e \in Endpoints |-> IF e = "/mcp" THEN 150 ELSE 0]>>,
     byTool |-> <<[tl \in Tools |-> IF tl = "detect_location_area" THEN 150 ELSE 0]>>,
     serverStartTime |-> <<1>>] }

McpBodies ==
  { [method |-> "tools/call", name |-> tl] : tl \in Tools }
    \cup { [method |-> "tools/call", name |-> ""], [method |-> "tools/list", name |-> ""] }

\* how many requests a behaviour of the endpoint and startup specifications
\* tracks at most
MaxRequests == 3

\* how many imports a behaviour accepts at most
MaxImports == 1

(***************************************************************************)
(* The import and reset endpoints next to the tracked ones, the load done. *)
(***************************************************************************)
InitEndpoints ==
  InitServer({ Server(FALSE, << >>, f, rk, ik, Budget(MaxRequests, MaxImports)) :
                 f \in { << >>, <<StoredAnalytics>> }, rk \in EnvironmentKeys,
                 ik \in EnvironmentKeys })

NextEndpoints ==
  \/ \E e \in {"/health"} : GetRequest(e)
  \/ \E b \in McpBodies : McpRequest(b)
  \/ SaveTick
  \/ \E k \in KeyParams : ResetRequest(k)
  \/ \E k \in KeyParams, b \in ImportBodies : ImportRequest(k, b)

SpecEndpoints == InitEndpoints /\ [][NextEndpoints]_vars

\* The startup of the server: the load that awaits Firebase, interleaved with
\* incoming requests and the periodic save.
StartupStores == { << >>, <<StoredAnalytics>> }

InitStartup ==
  InitServer({ Server(fb, fd, f, Undefined, Undefined, Budget(MaxRequests, 0)) :
                 fb \in BOOLEAN, fd \in StartupStores, f \in StartupStores })

NextStartup ==
  \/ \E e \in {"/health"} : GetRequest(e)
  \/ \E b \in McpBodies : McpRequest(b)
  \/ LoadCompletes
  \/ SaveTick

SpecStartup == InitStartup /\ [][NextStartup]_vars

\* Tool calls, imports and resets, the load done.  The local file is absent
\* or was saved by an earlier run one call short of a full recent list.
MaxToolCalls == 3

AlmostFull == MAX_RECENT_CALLS - 1

AlmostFullAnalytics ==
  [serverStartTime    |-> 0,
   totalRequests      |-> AlmostFull,
   totalToolCalls     |-> AlmostFull,
   requestsByEndpoint |-> [e \in Endpoints |-> IF e = "/mcp" THEN AlmostFull ELSE 0],
   toolCalls          |-> [tl \in Tools |-> IF tl = "get_stop_arrivals" THEN AlmostFull ELSE 0],
   recentToolCalls    |-> [i \in 1..AlmostFull |->
                             ToolCall("get_stop_arrivals", AlmostFull - i)]]

InitRecent ==
  InitServer({ [Server(FALSE, << >>, f, Undefined, Undefined,
                       Budget(MaxToolCalls, MaxImports)) EXCEPT !.now = AlmostFull] :
                 f \in { << >>, <<AlmostFullAnalytics>> } })

NextRecent ==
  \/ \E b \in McpBodies : McpRequest(b)
  \/ \E k \in {BuiltInKey} : ResetRequest(k)
  \/ \E k \in {BuiltInKey}, b \in ImportBodies : ImportRequest(k, b)

SpecRecent == InitRecent /\ [][NextRecent]_vars

(***************************************************************************)
(* Vocabulary of the properties, stated on the inputs themselves: which    *)
(* table keys a text contains, and what a provider's reply looks like.     *)
(***************************************************************************)
AreasContained(T, s) ==
  { T[i][2] : i \in { j \in 1..Len(T) : includes(s, T[j][1]) } }

KeyArea(T, k) == T[CHOOSE i \in 1..Len(T) : T[i][1] = k][2]

IsKey(T, k) == \E i \in 1..Len(T) : T[i][1] = k

\* areas of the direct keys / state keys the lower-cased, trimmed query contains
QueryDirectAreas ==
  [q \in Queries |-> AreasContained(LOCATION_TO_AREA_MAP, trim(toLowerCase(q)))]

QueryStateAreas ==
  [q \in Queries |-> AreasContained(STATE_TO_AREA_MAP, trim(toLowerCase(q)))]

Started == pc # "idle"

Done == pc \in {"done", "replied"}

HasDirect == Started /\ QueryDirectAreas[query] # {}

HasStateOnly == Started /\ QueryDirectAreas[query] = {} /\ QueryStateAreas[query] # {}

NoTableMatch == Started /\ QueryDirectAreas[query] = {} /\ QueryStateAreas[query] = {}

\* the area and source the tables give for the query
TableAreas == IF HasDirect THEN QueryDirectAreas[query] ELSE QueryStateAreas[query]

TableSource == IF HasDirect THEN "direct_match" ELSE "state_mapping"

Returned == Done /\ outcome.kind = "return"

ReturnedNull == Returned /\ outcome.value = Null

ReturnedResult == Returned /\ outcome.value # Null

Result == outcome.value[1]

\* texts of the addresses the providers may send, and the state-table areas
\* whose key each contains once lower-cased
AddressTexts ==
  { a.s : a \in { x \in MiddlewareAddresses : x.type = "string" } }
  \cup { a[i].s : a \in NominatimAddresses, i \in 1..3 }
  \cup { "" }

AddressAreas ==
  [t \in AddressTexts |-> AreasContained(STATE_TO_AREA_MAP, toLowerCase(t))]

TextOf(v) == IF v.type = "string" THEN v.s ELSE ""

\* a body field of the wrong type: neither a string nor absent
WrongType(v) == v.type \in {"number", "NaN"}

\* the middleware replied with a body that carries coordinates
MiddlewareHasCoords(r) ==
  r.status = "ok" /\ r.hasData /\ Truthy(r.lat) /\ Truthy(r.lon)

MiddlewareMalformed(r) ==
  r.status = "ok" /\ r.hasData /\ Truthy(r.formattedAddress) /\ WrongType(r.formattedAddress)

\* the primary call failed: network error, timeout, non-2xx, an empty result
\* (no body, or no coordinates in it) or a body of the wrong shape
MiddlewareFailed(r) == ~MiddlewareHasCoords(r) \/ MiddlewareMalformed(r)

MiddlewareAnswered(r) == MiddlewareHasCoords(r) /\ ~MiddlewareMalformed(r)

NominatimErrored(r) == r.status # "ok"

NominatimEmpty(r) == r.status = "ok" /\ r.body # "results"

\* an address field the fallback reads is of the wrong type (town is read
\* only when there is no city)
NominatimMalformed(r) ==
  r.status = "ok" /\ r.body = "results"
  /\ (WrongType(r.state) \/ WrongType(r.city)
        \/ (TextOf(r.city) = "" /\ WrongType(r.town)))

\* Nominatim replied with a first result that carries numeric coordinates
NominatimHasCoords(r) ==
  /\ r.status = "ok" /\ r.body = "results" /\ ~NominatimMalformed(r)
  /\ parseFloat(r.lat).type = "number" /\ parseFloat(r.lon).type = "number"

\* the address field the fallback looks at after the state: city, else town
NominatimCity(r) == IF TextOf(r.city) # "" THEN TextOf(r.city) ELSE TextOf(r.town)

\* no area can be derived from the address Nominatim returned
NominatimUnmapped(r) ==
  /\ r.status = "ok" /\ r.body = "results" /\ ~NominatimMalformed(r)
  /\ Lookup(STATE_TO_AREA_MAP, toLowerCase(TextOf(r.state))) = ""
  /\ Lookup(STATE_TO_AREA_MAP, toLowerCase(NominatimCity(r))) = ""

PrimaryFailed == middlewareReply # << >> /\ MiddlewareFailed(middlewareReply[1])

PrimaryAnswered == middlewareReply # << >> /\ MiddlewareAnswered(middlewareReply[1])

FallbackReplied == nominatimReply # << >>

\* geocodeLocation came back with a result
GeocodingReturned ==
  \/ PrimaryAnswered
  \/ /\ FallbackReplied
     /\ geocodeWithNominatim(query, nominatimReply[1]).value # Null

(***************************************************************************)
(* Properties of the table tiers.                                          *)
(***************************************************************************)
\* C1: a query that contains a direct-location key resolves, whatever the
\* providers do, to a result with source direct_match and the area of a direct
\* key it contains, also when it contains a state key of another area; when
\* geocoding returned a result the confidence is high.
C1_DirectMatchWins ==
  (Done /\ HasDirect) =>
    /\ ReturnedResult
    /\ Result.source = "direct_match"
    /\ Result.area \in QueryDirectAreas[query]
    /\ (GeocodingReturned => Result.confidence = "high")

\* a direct key and a state key of a different area in one query, geocoded
C1_Witness ==
  /\ Done /\ HasDirect /\ GeocodingReturned
  /\ QueryStateAreas[query] \ QueryDirectAreas[query] # {}
  /\ ReturnedResult /\ Result.source = "direct_match" /\ Result.confidence = "high"

\* C2: a query that contains a state key and no direct key resolves, whatever
\* the providers do, to a result with source state_mapping and the area of a
\* state key it contains ("Kedah" gives alor-setar); the state scan records
\* nothing when the direct scan found a key.
C2_StateMapping ==
  /\ (Done /\ HasStateOnly) =>
       /\ ReturnedResult
       /\ Result.source = "state_mapping"
       /\ Result.area \in QueryStateAreas[query]
       /\ (query = "Kedah" => Result.area = "alor-setar")
  /\ (Started /\ HasDirect) =>
       (scan.detectedState = "" /\ scan.matchSource = "direct_match")
  /\ (Started /\ scan.matchSource = "state_mapping") => HasStateOnly

C2_Witness ==
  /\ Done /\ query = "KTM Alor Setar" /\ ReturnedResult
  /\ Result.source = "state_mapping" /\ Result.area = "alor-setar"

(***************************************************************************)
(* Properties of the geocoding step.                                       *)
(***************************************************************************)
\* the coordinates sent by the provider that answered last
ProviderLat ==
  IF PrimaryAnswered THEN middlewareReply[1].lat ELSE parseFloat(nominatimReply[1].lat)

ProviderLon ==
  IF PrimaryAnswered THEN middlewareReply[1].lon ELSE parseFloat(nominatimReply[1].lon)

\* a provider answered with coordinates for the query
ProviderGaveCoords ==
  \/ PrimaryAnswered
  \/ PrimaryFailed /\ FallbackReplied /\ NominatimHasCoords(nominatimReply[1])

\* C3: with a table match, when either provider answers with coordinates the
\* result has the table's area and source, confidence high and that provider's
\* coordinates, whatever area (or none) the provider's address maps to.
C3_TableAreaProviderCoords ==
  (Done /\ ~NoTableMatch /\ ProviderGaveCoords) =>
    /\ ReturnedResult
    /\ Result.area \in TableAreas
    /\ Result.source = TableSource
    /\ Result.confidence = "high"
    /\ Result.location.lat = ProviderLat
    /\ Result.location.lon = ProviderLon

\* both providers failed: an error, a timeout, an empty result or a body of
\* the wrong shape
BothFailedOrEmpty ==
  /\ PrimaryFailed
  /\ FallbackReplied
  /\ \/ NominatimErrored(nominatimReply[1])
     \/ NominatimEmpty(nominatimReply[1])
     \/ NominatimMalformed(nominatimReply[1])

C5_NullExactlyOnTotalFailure ==
  /\ (Done /\ NoTableMatch /\ BothFailedOrEmpty) => ReturnedNull
  /\ ReturnedNull => (NoTableMatch /\ BothFailedOrEmpty)

\* the state-table areas whose key the returned address text contains
MiddlewareAddressAreas(r) == AddressAreas[TextOf(r.formattedAddress)]

NominatimAddressAreas(r) ==
  AddressAreas[TextOf(r.state)] \cup AddressAreas[TextOf(r.city)]
    \cup AddressAreas[TextOf(r.town)]

\* C6, as the specification words it: without a table match, a provider that returns coordinates
\* and an address text containing a state-table key gives that key's area with
\* source geocoding, confidence high from the primary, medium from Nominatim.
C6_AddressContainsKey ==
  (Done /\ NoTableMatch) =>
    /\ (PrimaryAnswered /\ MiddlewareAddressAreas(middlewareReply[1]) # {}) =>
         /\ ReturnedResult
         /\ Result.area \in MiddlewareAddressAreas(middlewareReply[1])
         /\ Result.source = "geocoding"
         /\ Result.confidence = "high"
    /\ (PrimaryFailed /\ FallbackReplied /\ NominatimHasCoords(nominatimReply[1])
          /\ NominatimAddressAreas(nominatimReply[1]) # {}) =>
         /\ ReturnedResult
         /\ Result.area \in NominatimAddressAreas(nominatimReply[1])
         /\ Result.source = "geocoding"
         /\ Result.confidence = "medium"

\* the state-table key the Nominatim address is equal to once lower-cased:
\* the state, or the city (else town) when the state names nothing in the table
NominatimKey(r) ==
  LET state == toLowerCase(TextOf(r.state))
      city  == toLowerCase(NominatimCity(r))
  IN  IF IsKey(STATE_TO_AREA_MAP, state) THEN state
      ELSE IF InheritedMember(state) = "" /\ IsKey(STATE_TO_AREA_MAP, city) THEN city
      ELSE ""

\* C6, with whole-key lookup for Nominatim: for the primary the address text has to contain a key; for
\* Nominatim the address's state, or else its city or town, has to be equal
\* to a key, and the result has that key's area.
C6_AddressKeyArea ==
  (Done /\ NoTableMatch) =>
    /\ (PrimaryAnswered /\ MiddlewareAddressAreas(middlewareReply[1]) # {}) =>
         /\ ReturnedResult
         /\ Result.area \in MiddlewareAddressAreas(middlewareReply[1])
         /\ Result.source = "geocoding"
         /\ Result.confidence = "high"
    /\ (PrimaryFailed /\ FallbackReplied /\ NominatimHasCoords(nominatimReply[1])
          /\ NominatimKey(nominatimReply[1]) # "") =>
         /\ ReturnedResult
         /\ Result.area = KeyArea(STATE_TO_AREA_MAP, NominatimKey(nominatimReply[1]))
         /\ Result.source = "geocoding"
         /\ Result.confidence = "medium"

\* Nominatim answers after a failed primary, and the area comes from its city
C6_Witness ==
  /\ Done /\ NoTableMatch /\ PrimaryFailed /\ FallbackReplied
  /\ NominatimHasCoords(nominatimReply[1])
  /\ ~IsKey(STATE_TO_AREA_MAP, toLowerCase(TextOf(nominatimReply[1].state)))
  /\ NominatimKey(nominatimReply[1]) = "kuala lumpur"
  /\ ReturnedResult /\ Result.area = "klang-valley" /\ Result.confidence = "medium"

\* C7: without a table match, when a provider returns coordinates but no area
\* can be derived from its address, the result is area "unknown", confidence
\* low, source geocoding, with the provider's coordinates.
C7_UnknownKeepsCoords ==
  (Done /\ NoTableMatch
     /\ \/ PrimaryAnswered /\ MiddlewareAddressAreas(middlewareReply[1]) = {}
        \/ /\ PrimaryFailed /\ FallbackReplied
           /\ NominatimHasCoords(nominatimReply[1])
           /\ NominatimUnmapped(nominatimReply[1])) =>
    /\ ReturnedResult
    /\ Result.area = "unknown"
    /\ Result.confidence = "low"
    /\ Result.source = "geocoding"
    /\ Result.location.lat = ProviderLat
    /\ Result.location.lon = ProviderLon

\* C8: whenever the primary call fails, Nominatim is then called with the
\* same query, and the resolution ends as the tables and Nominatim's reply
\* alone determine, whatever the primary's failure was.
C8_FallbackAfterPrimaryFailure ==
  PrimaryFailed =>
    /\ pc \in {"nominatim", "done", "replied"}
    /\ Len(requests) = 2
    /\ requests[1].provider = "middleware"
    /\ requests[2].provider = "nominatim"
    /\ requests[2].query = requests[1].query
    /\ requests[2].query = query
    /\ Done =>
         /\ FallbackReplied
         /\ outcome = DetectResult(query, scan,
                                   geocodeWithNominatim(query, nominatimReply[1]))

\* the primary timed out and Nominatim's answer became the result
C8_Witness ==
  /\ Done /\ PrimaryFailed /\ middlewareReply[1].status = "timeout"
  /\ Len(requests) = 2 /\ requests[2].provider = "nominatim"
  /\ ReturnedResult /\ Result.source = "geocoding" /\ Result.confidence = "medium"

\* C9: the promise of detectAreaFromLocation is never rejected: every
\* resolution ends with a result or with null.
C9_NeverRejects ==
  /\ outcome.kind \in {"pending", "return"}
  /\ Done => outcome.kind = "return"
  /\ Done => (outcome.value = Null \/ Len(outcome.value) = 1)

\* both providers misbehave: the primary is rejected, Nominatim sends a body
\* of the wrong type
C9_Witness ==
  /\ Done /\ middlewareReply # << >> /\ nominatimReply # << >>
  /\ middlewareReply[1].status = "network"
  /\ NominatimMalformed(nominatimReply[1])
  /\ ~NoTableMatch
  /\ outcome.kind = "return"

\* C10: no resolution ends before an outbound geocoding call was issued, table
\* match or not.
C10_AlwaysGeocodes ==
  (outcome.kind # "pending") =>
    /\ Len(requests) >= 1
    /\ requests[1].provider = "middleware"
    /\ requests[1].query = query

C10_Witness ==
  /\ Done /\ HasDirect /\ Len(requests) >= 1 /\ ReturnedResult
  /\ Result.source = "direct_match"

(***************************************************************************)
(* Properties of the provider chain.                                       *)
(***************************************************************************)
\* C11: a resolution issues at most two outbound calls, at most one to each
\* provider and in sequence: the Nominatim call is issued only after the
\* middleware call has completed, and never when that call gave a result.
C11_AtMostTwoSequentialCalls ==
  /\ Len(requests) <= 2
  /\ \A i, j \in 1..Len(requests) :
       i # j => requests[i].provider # requests[j].provider
  /\ (pc = "middleware") => (Len(requests) = 1 /\ requests[1].provider = "middleware")
  /\ (Len(requests) = 2) =>
       /\ requests[1].provider = "middleware"
       /\ requests[2].provider = "nominatim"
       /\ middlewareReply # << >>
       /\ ~MiddlewareAnswered(middlewareReply[1])
  /\ PrimaryAnswered => Len(requests) = 1

\* the second call was made, after the first had failed, and has replied
C11_Witness ==
  /\ Done /\ Len(requests) = 2 /\ PrimaryFailed /\ FallbackReplied
  /\ requests[2].provider = "nominatim"

\* the reply has a body, but lat or lon is missing from it
MiddlewareLacksCoords(r) ==
  r.status = "ok" /\ r.hasData /\ (r.lat.type = "undefined" \/ r.lon.type = "undefined")

NominatimLacksCoords(r) ==
  r.status = "ok" /\ r.body = "results"
  /\ (r.lat.type = "undefined" \/ r.lon.type = "undefined")

\* C12: a provider response without lat or lon is treated like an error of
\* that provider, primary or fallback, and no result carries missing or
\* non-numeric coordinates.
C12_MissingCoordsLikeError ==
  /\ (middlewareReply # << >> /\ MiddlewareLacksCoords(middlewareReply[1])) =>
       (Len(requests) = 2 /\ requests[2].provider = "nominatim")
  /\ (Done /\ FallbackReplied /\ NominatimLacksCoords(nominatimReply[1])) =>
       /\ NoTableMatch => ReturnedNull
       /\ ~NoTableMatch =>
            /\ ReturnedResult
            /\ Result.confidence = "medium"
            /\ Result.location.lat = Num(0)
            /\ Result.location.lon = Num(0)
  /\ ReturnedResult =>
       (Result.location.lat.type = "number" /\ Result.location.lon.type = "number")

\* C13, as the specification words it: a provider that responds with nothing
\* mappable to a service area is treated as unavailable: the primary is
\* followed by the call to Nominatim, and for Nominatim geocoding has failed.
C13_UnmappableLikeUnavailable ==
  /\ (middlewareReply # << >> /\ MiddlewareAnswered(middlewareReply[1])
        /\ MiddlewareAddressAreas(middlewareReply[1]) = {}) =>
       (Len(requests) = 2 /\ requests[2].provider = "nominatim")
  /\ (Done /\ PrimaryFailed /\ FallbackReplied /\ NominatimUnmapped(nominatimReply[1])) =>
       /\ NoTableMatch => ReturnedNull
       /\ ~NoTableMatch =>
            /\ ReturnedResult
            /\ Result.confidence = "medium"
            /\ Result.location.lat = Num(0)
            /\ Result.location.lon = Num(0)

\* C13, with the primary's unmappable answer kept: when the middleware sends
\* coordinates with an address that maps to no area, Nominatim is not called
\* and the resolution ends with the middleware's coordinates (the table's area
\* with confidence high, or "unknown" with confidence low); when Nominatim
\* responds with nothing mappable, geocoding has failed.
C13_UnmappablePrimaryIsFinal ==
  /\ (middlewareReply # << >> /\ MiddlewareAnswered(middlewareReply[1])
        /\ MiddlewareAddressAreas(middlewareReply[1]) = {}) =>
       /\ Done
       /\ Len(requests) = 1
       /\ nominatimReply = << >>
       /\ ReturnedResult
       /\ Result.location.lat = middlewareReply[1].lat
       /\ Result.location.lon = middlewareReply[1].lon
       /\ NoTableMatch =>
            /\ Result.area = "unknown"
            /\ Result.confidence = "low"
            /\ Result.source = "geocoding"
       /\ ~NoTableMatch =>
            /\ Result.area \in TableAreas
            /\ Result.confidence = "high"
            /\ Result.source = TableSource
  /\ (Done /\ PrimaryFailed /\ FallbackReplied /\ NominatimUnmapped(nominatimReply[1])) =>
       /\ NoTableMatch => ReturnedNull
       /\ ~NoTableMatch =>
            /\ ReturnedResult
            /\ Result.confidence = "medium"
            /\ Result.location.lat = Num(0)
            /\ Result.location.lon = Num(0)

\* the middleware answered with an address of no service area, and that ended
\* the resolution
C13_Witness ==
  /\ Done /\ NoTableMatch /\ PrimaryAnswered
  /\ MiddlewareAddressAreas(middlewareReply[1]) = {}
  /\ Len(requests) = 1
  /\ ReturnedResult /\ Result.area = "unknown" /\ Result.confidence = "low"

\* whether the query mentions the country, in any letter case
QueryMentionsMalaysia ==
  [q \in Queries |->
     \E i \in 1..(Len(q) - Len("malaysia") + 1) :
       SubSeq(toLowerCase(q), i, i + Len("malaysia") - 1) = "malaysia"]

\* the query text with ", Malaysia" appended unless it mentions the country
BiasedText(q) == IF QueryMentionsMalaysia[q] THEN q ELSE q \o ", Malaysia"

\* C14, as the specification words it: every outbound request, to either
\* provider, carries the original query text with ", Malaysia" appended if and
\* only if the query does not mention "malaysia".
C14_EveryRequestBiased ==
  \A i \in 1..Len(requests) : requests[i].text = BiasedText(query)

\* C14, per provider: the middleware request carries the query text exactly as
\* given; the Nominatim request carries it with ", Malaysia" appended if and
\* only if the query does not mention "malaysia" in any letter case.
C14_RequestTexts ==
  \A i \in 1..Len(requests) :
    /\ requests[i].query = query
    /\ (requests[i].provider = "middleware") => requests[i].text = query
    /\ (requests[i].provider = "nominatim") => requests[i].text = BiasedText(query)

\* a query that names the country with a capital letter goes to Nominatim
\* as it is
C14_Witness ==
  /\ query = "Ipoh, Malaysia" /\ Len(requests) = 2
  /\ requests[1].text = "Ipoh, Malaysia"
  /\ requests[2].provider = "nominatim" /\ requests[2].text = "Ipoh, Malaysia"

\* C15: the configuration selects the first provider: without a Google Maps
\* key the primary is not attempted and the one outbound call goes to
\* Nominatim; with a key the primary goes first and Nominatim follows only
\* its failure.
C15_KeySelectsProvider ==
  /\ (Started /\ ~apiKey) =>
       /\ \A i \in 1..Len(requests) : requests[i].provider = "nominatim"
       /\ Done => Len(requests) = 1
  /\ (Started /\ apiKey) =>
       /\ requests[1].provider = "middleware"
       /\ (Len(requests) = 2) => (requests[2].provider = "nominatim" /\ PrimaryFailed)

(***************************************************************************)
(* Properties of the detect_location_area tool and of the set of areas.    *)
(***************************************************************************)
\* the service areas the two tables can give
ServiceAreas ==
  { STATE_TO_AREA_MAP[i][2] : i \in 1..Len(STATE_TO_AREA_MAP) }
  \cup { LOCATION_TO_AREA_MAP[i][2] : i \in 1..Len(LOCATION_TO_AREA_MAP) }

\* the areas getAreaStateMapping enumerates
EnumeratedAreas == { getAreaStateMapping[i][1] : i \in 1..Len(getAreaStateMapping) }

Replied == pc = "replied"

\* C16: when the resolver returns null the tool answers with a structured
\* result that is no error (success = false, isError not set) and carries the
\* complete enumeration of the service areas; isError is set only when the
\* resolver itself throws.
C16_NotFoundIsStructured ==
  Replied =>
    /\ (outcome.kind = "return" /\ outcome.value = Null) =>
         /\ toolResponse.kind = "not_found"
         /\ ~toolResponse.isError
         /\ ~toolResponse.success
         /\ toolResponse.availableAreas = getAreaStateMapping
         /\ { toolResponse.availableAreas[i][1] :
                i \in 1..Len(toolResponse.availableAreas) } = ServiceAreas
    /\ toolResponse.isError => outcome.kind = "throw"

C16_Witness ==
  /\ Replied /\ ReturnedNull
  /\ toolResponse.kind = "not_found" /\ ~toolResponse.isError
  /\ Len(toolResponse.availableAreas) = Cardinality(ServiceAreas)

\* C17: the area of every result is "unknown" or one of the service areas
\* that getAreaStateMapping enumerates.
C17_AreaInClosedSet ==
  ReturnedResult => Result.area \in (EnumeratedAreas \cup {"unknown"})

(***************************************************************************)
(* Properties that compare two resolutions.                                *)
(***************************************************************************)
\* the same area, source and confidence, or null both
SameVerdict(a, b) ==
  /\ a.kind = b.kind
  /\ (a.value = Null) <=> (b.value = Null)
  /\ (a.value # Null /\ b.value # Null) =>
       /\ a.value[1].area = b.value[1].area
       /\ a.value[1].source = b.value[1].source
       /\ a.value[1].confidence = b.value[1].confidence

\* the recorded resolution got the replies the current one got
SameReplies ==
  /\ earlier # << >>
  /\ earlier[1].middlewareReply = middlewareReply
  /\ earlier[1].nominatimReply = nominatimReply
  /\ earlier[1].apiKey = apiKey

\* two texts that differ at most in letter case and in surrounding white space
SameButCaseAndSpace(a, b) == trim(toLowerCase(a)) = trim(toLowerCase(b))

\* C18: a query and a variant of it that differs only in letter case or in
\* leading or trailing white space resolve, with the same provider replies, to
\* the same area, source and confidence.
C18_CaseAndSpaceInsensitive ==
  (Done /\ SameReplies /\ SameButCaseAndSpace(earlier[1].query, query))
    => SameVerdict(earlier[1].outcome, outcome)

\* "  KOMTAR " resolved after "komtar", both from the direct table although
\* the provider placed them in Johor
C18_Witness ==
  /\ Done /\ SameReplies
  /\ earlier[1].query = "komtar" /\ query = "  KOMTAR "
  /\ MiddlewareAnswered(middlewareReply[1])
  /\ "johor" \in MiddlewareAddressAreas(middlewareReply[1])
  /\ ReturnedResult /\ Result.source = "direct_match" /\ Result.area = "penang"
  /\ earlier[1].outcome.value[1].area = "penang"

AloneOutcome(q, m, n) ==
  LET settled == geocodeWithMiddleware(q, m[1])
  IN  IF FallsBack(settled)
      THEN DetectResult(q, ScanTables(q), geocodeWithNominatim(q, n[1]))
      ELSE DetectResult(q, ScanTables(q), settled)

\* every finished call holds what it would have returned alone
EachAsAlone ==
  \A c \in Calls :
    calls[c].pc = "done" =>
      calls[c].outcome =
        AloneOutcome(calls[c].query, calls[c].middlewareReply, calls[c].nominatimReply)

\* a step changes the state of one call only
OwnStateOnly == Cardinality({ c \in Calls : calls'[c] # calls[c] }) <= 1

\* C20: however the steps of concurrent resolutions interleave, each returns
\* the result it would return alone with the same provider replies, and no
\* resolution touches the state of another.
C20_ConcurrentIndependent == [](EachAsAlone) /\ [][OwnStateOnly]_vars

\* a call that scanned "Komtar" finishes with its direct match after a call
\* for "Pekan" was started and while that call still awaits its provider
C20_Witness ==
  \E c, d \in Calls :
    /\ c # d
    /\ calls[c].pc = "done" /\ calls[c].query = "Komtar"
    /\ calls[c].outcome.value # Null
    /\ calls[c].outcome.value[1].source = "direct_match"
    /\ calls[d].pc \in {"middleware", "nominatim"} /\ calls[d].query = "Pekan"
    /\ calls[d].scan # calls[c].scan

(***************************************************************************)
(* Termination.                                                            *)
(***************************************************************************)
Awaiting == pc \in {"middleware", "nominatim"}

\* a timed-out primary call leads to the fallback call; a timed-out fallback
\* call ends geocoding as failed
TimeoutLikeError ==
  /\ (middlewareReply # << >> /\ middlewareReply[1].status = "timeout") =>
       /\ pc \in {"nominatim", "done", "replied"}
       /\ Len(requests) = 2 /\ requests[2].provider = "nominatim"
  /\ (nominatimReply # << >> /\ nominatimReply[1].status = "timeout") =>
       /\ Done
       /\ outcome = DetectResult(query, scan, Return(Null))

\* C21: a timed-out call is handled like any other provider error, and, the
\* calls always settling, every resolution returns a result or null.
C21_Terminates == [](TimeoutLikeError) /\ (Awaiting ~> Returned)

\* both calls timed out and the resolution returned all the same
C21_Witness ==
  /\ Returned
  /\ middlewareReply # << >> /\ middlewareReply[1].status = "timeout"
  /\ nominatimReply # << >> /\ nominatimReply[1].status = "timeout"

(***************************************************************************)
(* The examples of the README.                                             *)
(***************************************************************************)
\* the tool answered with a detected area
Detected == Replied /\ toolResponse.kind = "detected"

Answer == toolResponse.result[1]

ReadmeLocationToArea ==
  << <<"ipoh", {"Ipoh", "Bercham", "Tanjung Rambutan", "Medan Kidd"}>>,
     <<"seremban", {"Seremban", "Nilai", "Port Dickson"}>>,
     <<"penang", {"George Town", "Butterworth", "Bayan Lepas", "Penang Sentral"}>>,
     <<"klang-valley", {"KLCC", "Shah Alam", "Putrajaya"}>>,
     <<"kuantan", {"Kuantan", "Pekan", "Bandar Indera Mahkota"}>>,
     <<"kangar", {"Kangar", "Arau", "Kuala Perlis", "Padang Besar"}>>,
     <<"alor-setar", {"Alor Setar", "Sungai Petani", "Pendang", "Jitra"}>>,
     <<"kota-bharu", {"Kota Bharu", "Rantau Panjang", "Bachok", "Machang", "Jeli"}>>,
     <<"kuala-terengganu", {"Kuala Terengganu", "Merang", "Marang", "Setiu"}>>,
     <<"melaka", {"Melaka", "Tampin", "Jasin", "Masjid Tanah"}>>,
     <<"johor", {"Johor Bahru", "Iskandar Puteri", "Pasir Gudang", "Kulai"}>>,
     <<"kuching", {"Kuching", "Bau", "Serian", "Bako", "Siniawan", "Matang"}>> >>

\* C23: for every place name of the README's table, detect_location_area
\* maps that name to the area of its row.
C23_ReadmeNamesMapped ==
  \A i \in 1..Len(ReadmeLocationToArea) :
    (Replied /\ query \in ReadmeLocationToArea[i][2]) =>
      /\ Detected
      /\ Answer.area = ReadmeLocationToArea[i][1]

(***************************************************************************)
(* Properties of the order of the tables.                                  *)
(***************************************************************************)
\* the positions in T of the keys s contains
ContainedKeys(T, s) == { i \in 1..Len(T) : includes(s, T[i][1]) }

\* the one declared first
Earliest(K) == CHOOSE i \in K : \A j \in K : i <= j

Normalized == trim(toLowerCase(query))

\* C24: within one table, when the lower-cased query contains several keys,
\* the area (and the detected state) is the one of the key declared earliest,
\* not of the longest or most specific key.
C24_FirstMatchWins ==
  Started =>
    LET D == ContainedKeys(LOCATION_TO_AREA_MAP, Normalized)
        S == ContainedKeys(STATE_TO_AREA_MAP, Normalized)
    IN  /\ D # {} =>
             /\ scan.detectedArea = LOCATION_TO_AREA_MAP[Earliest(D)][2]
             /\ scan.matchSource = "direct_match"
             /\ ReturnedResult => Result.area = LOCATION_TO_AREA_MAP[Earliest(D)][2]
        /\ (D = {} /\ S # {}) =>
             /\ scan.detectedArea = STATE_TO_AREA_MAP[Earliest(S)][2]
             /\ scan.detectedState = STATE_TO_AREA_MAP[Earliest(S)][1]
             /\ scan.matchSource = "state_mapping"
             /\ ReturnedResult => Result.area = STATE_TO_AREA_MAP[Earliest(S)][2]

\* "Kluang Johor" contains the state keys "kl" and "johor", of different
\* areas: the earlier and shorter "kl" decides
C24_Witness ==
  /\ ReturnedResult /\ query = "Kluang Johor"
  /\ LET S == ContainedKeys(STATE_TO_AREA_MAP, Normalized)
     IN  /\ \E i, j \in S : STATE_TO_AREA_MAP[i][2] # STATE_TO_AREA_MAP[j][2]
         /\ \E j \in S : Len(STATE_TO_AREA_MAP[j][1]) > Len(STATE_TO_AREA_MAP[Earliest(S)][1])
  /\ scan.detectedState = "kl" /\ Result.area = "klang-valley"

\* C25: a query equal to a key of the direct table or of the state table
\* resolves, whatever the providers do, to the area that key is mapped to: no
\* key is shadowed by an earlier or higher-tier key it contains.
C25_KeysResolveToOwnArea ==
  Done =>
    /\ \A i \in 1..Len(LOCATION_TO_AREA_MAP) :
         query = LOCATION_TO_AREA_MAP[i][1] =>
           ReturnedResult /\ Result.area = LOCATION_TO_AREA_MAP[i][2]
    /\ \A i \in 1..Len(STATE_TO_AREA_MAP) :
         query = STATE_TO_AREA_MAP[i][1] =>
           ReturnedResult /\ Result.area = STATE_TO_AREA_MAP[i][2]

\* "klang" contains the earlier key "kl": it resolves to its own area, here
\* with a provider that placed the query in Johor
C25_Witness ==
  /\ ReturnedResult /\ query = "klang"
  /\ Cardinality(ContainedKeys(STATE_TO_AREA_MAP, Normalized)) >= 2
  /\ PrimaryAnswered /\ "johor" \in MiddlewareAddressAreas(middlewareReply[1])
  /\ Result.area = "klang-valley"

(***************************************************************************)
(* Properties of the fields of a result taken together.                    *)
(***************************************************************************)
\* C26: in every result, confidence is low exactly when the area is
\* "unknown"; a result with a service area has confidence high or medium, and
\* a result from a table never has area "unknown".
C26_LowIffUnknown ==
  ReturnedResult =>
    /\ (Result.confidence = "low") <=> (Result.area = "unknown")
    /\ Result.area \in ServiceAreas => Result.confidence \in {"high", "medium"}
    /\ Result.source \in {"direct_match", "state_mapping"} => Result.area # "unknown"

\* the middleware placed a query without table match outside every area
C26_Witness ==
  /\ ReturnedResult /\ NoTableMatch /\ PrimaryAnswered
  /\ MiddlewareAddressAreas(middlewareReply[1]) = {}
  /\ Result.area = "unknown" /\ Result.confidence = "low"

ZeroCoordinates == Result.location.lat = Num(0) /\ Result.location.lon = Num(0)

\* C27: a result has the coordinates lat = 0, lon = 0 exactly when geocoding
\* failed for both providers, and then its confidence is medium and its source
\* a table; the tool gives the "did not return coordinates" note exactly when
\* both providers failed and the "TIP" exactly when a provider supplied the
\* coordinates.
C27_ZeroIffGeocodingFailed ==
  /\ ReturnedResult =>
       /\ ZeroCoordinates <=> ~ProviderGaveCoords
       /\ ZeroCoordinates =>
            Result.confidence = "medium" /\ Result.source # "geocoding"
  /\ Detected =>
       /\ (toolResponse.nextStepGuidance = "NOTE: Geocoding did not return coordinates.")
            <=> ~ProviderGaveCoords
       /\ (toolResponse.nextStepGuidance = "TIP: You can use find_nearby_stops_with_arrivals")
            <=> ProviderGaveCoords

\* ---------------------------------------------------------------------
\* C28  Every POST /analytics/reset or /analytics/import whose key is absent,
\* or differs from both the key of the environment and the built-in key, is
\* answered with 403 and leaves the analytics (counters, recent calls,
\* serverStartTime) unchanged, whether or not the environment key is set.

\* the key the claim calls unacceptable
BadKey(key, envKey) == key = Undefined \/ (key # envKey /\ key # BuiltInKey)

Forbidden == server'.response.status = 403 /\ analytics' = analytics

C28_BadKeyForbidden ==
  [][ /\ \A k \in KeyParams :
           BadKey(k, server.resetKey) /\ ResetRequest(k) => Forbidden
      /\ \A k \in KeyParams, b \in ImportBodies :
           BadKey(k, server.importKey) /\ ImportRequest(k, b) => Forbidden ]_vars

\* ---------------------------------------------------------------------
\* C29  No tracked request or tool call is lost to the startup load: once
\* loadAnalytics has completed, totalRequests and totalToolCalls are at least
\* the loaded totals plus what was tracked since the process started.
C29_NothingLostToLoad ==
  server.loadPc = "loaded" =>
    /\ analytics.totalRequests >= server.loaded.requests + server.tracked.requests
    /\ analytics.totalToolCalls >= server.loaded.toolCalls + server.tracked.toolCalls

\* ---------------------------------------------------------------------
\* C30  After any sequence of tracked tool calls, imports and resets,
\* recentToolCalls holds at most MAX_RECENT_CALLS entries, newest first, and
\* equals the most recent min(n, MAX_RECENT_CALLS) tool calls tracked since
\* the last reset; totalToolCalls is not capped and counts every one of them.
Min(a, b) == IF a < b THEN a ELSE b

NewestFirst(recent) ==
  \A i \in 1..(Len(recent) - 1) : recent[i].timestamp > recent[i + 1].timestamp

C30_RecentCallsWindow ==
  LET recent == analytics.recentToolCalls
      n == Len(server.sinceReset)
  IN  /\ Len(recent) <= MAX_RECENT_CALLS
      /\ NewestFirst(recent)
      /\ recent = SubSeq(server.sinceReset, 1, Min(n, MAX_RECENT_CALLS))
      /\ analytics.totalToolCalls >= n

C30_Witness ==
  /\ server.response = Response("/mcp", 200)
  /\ Len(server.sinceReset) > MAX_RECENT_CALLS
  /\ Len(analytics.recentToolCalls) = MAX_RECENT_CALLS
  /\ analytics.totalToolCalls > MAX_RECENT_CALLS

====
